---- MODULE Spec2Model ----
(***************************************************************************)
(* A model of mcp-esios: the EsiosService (HTTP session, indicator cache,  *)
(* search_indicators, get_indicator_data) and the serve / call_tool        *)
(* dispatcher, as tasks of one asyncio event loop.                         *)
(*                                                                         *)
(* A step of the model is what one task executes between two suspensions   *)
(* of the event loop.  `await self._ensure_session()` never suspends (the  *)
(* coroutine has no await of its own), so check-and-create is one step;    *)
(* `async with session.get(...)` suspends until the response arrives.      *)
(*                                                                         *)
(* Text is modelled as the sequence of its lines, a line as the tuple of   *)
(* its parts, the fixed words first (<<"">> is an empty line); a string    *)
(* that a regex searches is the tuple of its characters.  Optional values  *)
(* are None == <<>> or Some(x) == <<x>>.                                   *)
(***************************************************************************)
EXTENDS Naturals, Sequences, FiniteSets

VARIABLES servePc, session, sessionClosed, indicators_cache, tasks,
          catalogGets, fetchFailed

vars == <<servePc, session, sessionClosed, indicators_cache, tasks,
          catalogGets, fetchFailed>>

\* ------------------------------------------------------------------ bounds

\* Tool calls the host sends in one run of the server.
MaxCalls == 2
\* Longest regex (in tokens) and longest catalog given to search_indicators.
MaxPattern == 2
MaxCatalog == 2
\* How far beyond the sample limit the longest upstream series goes.
MaxExtra == 2

\* ------------------------------------------------------- program constants

MAX_SAMPLE_VALUES == 10000
LargeResultSet == 100

None == <<>>
Some(x) == <<x>>

Min(a, b) == IF a < b THEN a ELSE b

\* All sequences over S of length at most n.
SeqsUpTo(S, n) == UNION {[1..k -> S] : k \in 0..n}

\* ------------------------------------------------------------------ regex
\* The fragment of Python's `re` syntax the model covers: literal letters,
\* "." (any character), "|" (alternation) and "(" which, with no ")" in the
\* alphabet, is always an unterminated subpattern (re.error).

Letters == {"p", "P", "d", "D", "x"}
PatternTokens == Letters \cup {".", "|", "("}

Lower(c) == IF c = "P" THEN "p" ELSE IF c = "D" THEN "d" ELSE c

\* re.compile(query, re.IGNORECASE) raises re.error
ReError(query) == \E i \in 1..Len(query) : query[i] = "("

\* The alternatives of a pattern: the token runs between "|".
RECURSIVE Alternatives(_)
Alternatives(p) ==
    IF \A i \in 1..Len(p) : p[i] # "|" THEN <<p>>
    ELSE LET k == CHOOSE i \in 1..Len(p) :
                      p[i] = "|" /\ \A j \in 1..(i - 1) : p[j] # "|"
         IN  <<SubSeq(p, 1, k - 1)>> \o Alternatives(SubSeq(p, k + 1, Len(p)))

\* re.compile(parameters.query, re.IGNORECASE), for a query that compiles
ReCompile(query) == [tokens |-> query, ignorecase |-> TRUE]

TokenMatches(ignorecase, tok, c) ==
    \/ tok = "."
    \/ IF ignorecase THEN Lower(tok) = Lower(c) ELSE tok = c

\* One alternative matches text at offset off (0-based).
MatchAt(ignorecase, alt, text, off) ==
    /\ off + Len(alt) <= Len(text)
    /\ \A k \in 1..Len(alt) : TokenMatches(ignorecase, alt[k], text[off + k])

\* pattern.search(text) is not None
PatternSearch(pattern, text) ==
    LET alts == Alternatives(pattern.tokens)
    IN  \E a \in 1..Len(alts) : \E off \in 0..Len(text) :
            MatchAt(pattern.ignorecase, alts[a], text, off)

\* ------------------------------------------------------- search_indicators

\* ind.get('description', '')
GetDescription(ind) ==
    IF "description" \in DOMAIN ind THEN ind.description ELSE <<>>

IndicatorMatchesNoDescription(pattern, ind) ==
    \/ PatternSearch(pattern, ind.name)
    \/ PatternSearch(pattern, ind.short_name)

\* the condition of the selection loop
IndicatorMatches(pattern, ind) ==
    \/ PatternSearch(pattern, ind.name)
    \/ PatternSearch(pattern, ind.short_name)
    \/ PatternSearch(pattern, GetDescription(ind))

\* matching_indicators: the selected indicators, in catalog order
RECURSIVE MatchingIndicators(_, _)
MatchingIndicators(pattern, indicators) ==
    IF indicators = <<>> THEN <<>>
    ELSE (IF IndicatorMatches(pattern, Head(indicators))
          THEN <<Head(indicators)>> ELSE <<>>)
         \o MatchingIndicators(pattern, Tail(indicators))

\* the lines of one report entry
IndicatorEntry(ind) ==
    <<  <<"ID:", ind.id>>, <<"Name:", ind.name>>  >>
    \o (IF ind.short_name # <<>>
        THEN << <<"Short name:", ind.short_name>> >> ELSE <<>>)
    \o (IF GetDescription(ind) # <<>>
        THEN << <<"Description:", GetDescription(ind)>> >> ELSE <<>>)
    \o << <<"">> >>

RECURSIVE IndicatorEntries(_)
IndicatorEntries(matching) ==
    IF matching = <<>> THEN <<>>
    ELSE IndicatorEntry(Head(matching)) \o IndicatorEntries(Tail(matching))

InvalidRegexText(query) == << <<"Invalid regex pattern:", query>> >>
NoIndicatorsText == << <<"No indicators found matching your query.">> >>

\* The text search_indicators returns once _fetch_all_indicators has
\* returned `indicators`.
SearchReport(query, indicators) ==
    IF ReError(query) THEN InvalidRegexText(query)
    ELSE LET matching == MatchingIndicators(ReCompile(query), indicators)
         IN  IF matching = <<>> THEN NoIndicatorsText
             ELSE << <<"Found", Len(matching), "matching indicators:">>, <<"">> >>
                  \o IndicatorEntries(matching)
                  \o (IF Len(matching) > LargeResultSet
                      THEN << <<"Note: Large result set returned.">> >>
                      ELSE <<>>)
                  \o << <<"Use the indicator ID with get_indicator_data">> >>

\* ------------------------------------------------------------ exceptions
\* The classes that derive from Exception, which `except Exception` catches;
\* asyncio.CancelledError derives from BaseException only.

ExceptionClasses == {"ClientError", "TimeoutError", "JSONDecodeError",
                     "KeyError", "ValueError", "ValidationError", "McpError"}

Raise(cls) == [raised |-> TRUE, exc |-> cls]
Return(text) == [raised |-> FALSE, text |-> text]

\* ------------------------------------------------------ get_indicator_data
\* An upstream response: status is what session.get / raise_for_status make
\* of the exchange, body what response.json() finds.  A JSON body is a
\* record that has the keys the upstream sent; a value is null, a number
\* or a string that is no number.

Null == [t |-> "null"]
Num(n) == [t |-> "num", v |-> n]
NotANumber == [t |-> "str"]

\* start_date.strftime("%Y-%m-%dT%H:%M:%SZ")
Strftime(d) == <<d, "T00:00:00Z">>

\* f"{x:.2f}" of num/den, in hundredths
Fixed2(num, den) == (200 * num + den) \div (2 * den)

RECURSIVE SumRange(_, _, _)
SumRange(s, lo, hi) ==
    IF lo > hi THEN 0
    ELSE IF lo = hi THEN s[lo]
    ELSE LET mid == (lo + hi) \div 2
         IN  SumRange(s, lo, mid) + SumRange(s, mid + 1, hi)

\* the "Summary:" line and the empty line after it, when there is one
SummaryLines(values) ==
    LET notNull == SelectSeq(values, LAMBDA v : v.value.t # "null")
        numeric_values == [i \in 1..Len(notNull) |-> notNull[i].value.v]
        S == {numeric_values[i] : i \in 1..Len(numeric_values)}
        lo == CHOOSE x \in S : \A y \in S : x <= y
        hi == CHOOSE x \in S : \A y \in S : y <= x
        total == SumRange(numeric_values, 1, Len(numeric_values))
    IN  IF values # <<>> /\ Len(numeric_values) > 0
        THEN << <<"Summary:", Fixed2(lo, 1), Fixed2(hi, 1),
                  Fixed2(total, Len(numeric_values))>>, <<"">> >>
        ELSE <<>>

\* one rendered data point: f"{dt}: {val}" and " ({geo})" when geo is set
PointLine(value) ==
    LET dt == IF "datetime" \in DOMAIN value THEN Some(value.datetime)
              ELSE <<"Unknown">>
        val == IF "value" \in DOMAIN value THEN value.value
               ELSE [t |-> "N/A"]
        geo == IF "geo_name" \in DOMAIN value THEN value.geo_name ELSE ""
    IN  IF geo # "" THEN <<"point", dt, val, geo>> ELSE <<"point", dt, val>>

SampleValuesAll(values) == values

\* values[:self.MAX_SAMPLE_VALUES]
SampleValues(values) == SubSeq(values, 1, Min(Len(values), MAX_SAMPLE_VALUES))

\* the trailing "\n... and K more data points"
MoreLines(values) ==
    IF Len(values) > MAX_SAMPLE_VALUES
    THEN << <<"">>, <<"... and", Len(values) - MAX_SAMPLE_VALUES,
                      "more data points">> >>
    ELSE <<>>

\* the report built from a parsed response
DataReport(parameters, indicator_info, values) ==
    LET sample_values == SampleValues(values)
    IN  << <<"Indicator:", indicator_info.name, "ID:", parameters.indicator_id>>,
           <<"Data points:", Len(values)>>,
           <<"Period:", Strftime(parameters.start_date),
                        Strftime(parameters.end_date)>>,
           <<"Aggregation:", parameters.time_agg, parameters.time_trunc>>,
           <<"">> >>
        \o SummaryLines(values)
        \o << <<"Data:">> >>
        \o [i \in 1..Len(sample_values) |-> PointLine(sample_values[i])]
        \o MoreLines(values)

\* The try block of get_indicator_data, given the upstream's response:
\* what it raises, or the report it returns.
DataTry(parameters, resp) ==
    IF resp.status = "network" THEN Raise("ClientError")
    ELSE IF resp.status = "timeout" THEN Raise("TimeoutError")
    ELSE IF resp.status = "http_error" THEN Raise("ClientError")
    ELSE IF ~resp.body.json THEN Raise("JSONDecodeError")
    ELSE IF "indicator" \notin DOMAIN resp.body.data THEN Raise("KeyError")
    ELSE LET indicator_info == resp.body.data.indicator
         IN  IF "values" \notin DOMAIN indicator_info THEN Raise("KeyError")
             ELSE IF "name" \notin DOMAIN indicator_info THEN Raise("KeyError")
             ELSE LET values == indicator_info.values
                  IN  IF \E i \in 1..Len(values) :
                             "value" \notin DOMAIN values[i]
                      THEN Raise("KeyError")
                      ELSE IF \E i \in 1..Len(values) :
                                 values[i].value.t = "str"
                      THEN Raise("ValueError")
                      ELSE Return(DataReport(parameters, indicator_info, values))

FailedDataText(exc) == << <<"Failed to get indicator data:", exc>> >>

DataExceptClientErrorOnly(exc) == exc = "ClientError"

\* `except Exception as e:` of get_indicator_data
DataExcept(exc) == exc \in ExceptionClasses

\* get_indicator_data: what the coroutine returns or lets escape
GetIndicatorDataResult(parameters, resp) ==
    LET r == DataTry(parameters, resp)
    IN  IF r.raised /\ DataExcept(r.exc) THEN Return(FailedDataText(r.exc))
        ELSE r

\* ------------------------------------------------------------------ state
\* servePc           where serve() is: "init" (service constructed),
\*                   "created" (session pre-warmed, warm-up task created),
\*                   "loop" (suspended in server.run), "closing" (close()
\*                   called in the finally block), "returned"
\* session           self.session: 0 for None, else an index of sessionClosed
\* sessionClosed     for every ClientSession created so far, its .closed
\* indicators_cache  self.indicators_cache: None or Some(list)
\* tasks             the warm-up task (0) and the call_tool handlers (1..)
\* catalogGets       GET /indicators requests issued so far
\* fetchFailed       a catalog fetch has failed so far

Tasks == 0..MaxCalls
Handlers == 1..MaxCalls

METHOD_NOT_FOUND == "METHOD_NOT_FOUND"
INTERNAL_ERROR == "INTERNAL_ERROR"
SEARCH_INDICATORS == "search_indicators"
GET_INDICATOR_DATA == "get_indicator_data"

IdleTask ==
    [name |-> "", pc |-> "idle", arguments |-> [none |-> 0], result |-> <<>>,
     code |-> "", fetched |-> FALSE, cacheBefore |-> None, cacheAfter |-> None,
     afterFailure |-> FALSE, indicators |-> None, response |-> None]

InFlight(t) == tasks[t].pc \in {"fetching", "getting"}

\* ------------------------------------------------------------ EsiosService

ensure_session_always_new ==
    /\ sessionClosed' = Append(sessionClosed, FALSE)
    /\ session' = Len(sessionClosed) + 1

\* _ensure_session: one step, the coroutine never suspends
ensure_session ==
    IF session = 0 \/ sessionClosed[session]
    THEN /\ sessionClosed' = Append(sessionClosed, FALSE)
         /\ session' = Len(sessionClosed) + 1
    ELSE UNCHANGED <<session, sessionClosed>>

close_never == UNCHANGED <<session, sessionClosed>>

\* close: ClientSession.close() marks the session closed before it suspends
close ==
    IF session # 0 /\ ~sessionClosed[session]
    THEN /\ sessionClosed' = [sessionClosed EXCEPT ![session] = TRUE]
         /\ UNCHANGED session
    ELSE UNCHANGED <<session, sessionClosed>>

\* The try block of _fetch_all_indicators once the response is there: the
\* exception it raises, or the list it stores.
FetchTry(resp) ==
    IF resp.status = "network" THEN Raise("ClientError")
    ELSE IF resp.status = "timeout" THEN Raise("TimeoutError")
    ELSE IF resp.status = "http_error" THEN Raise("ClientError")
    ELSE IF ~resp.body.json THEN Raise("JSONDecodeError")
    ELSE IF "indicators" \notin DOMAIN resp.body.data THEN Raise("KeyError")
    ELSE Return(resp.body.data.indicators)

\* the value _fetch_all_indicators assigns to self.indicators_cache
FetchedCache(resp) ==
    LET r == FetchTry(resp)
    IN  IF r.raised THEN Some(<<>>) ELSE Some(r.text)

\* What a task that holds the list `cache` (the return value of
\* _fetch_all_indicators) becomes: the warm-up task ends, search_indicators
\* compiles the query, selects and returns its text.
AfterFetch(t, cache) ==
    IF tasks[t].name = SEARCH_INDICATORS
    THEN [tasks[t] EXCEPT !.pc = "returned",
                          !.indicators = cache,
                          !.cacheAfter = cache,
                          !.result = SearchReport(tasks[t].arguments.query,
                                                  cache[1])]
    ELSE [tasks[t] EXCEPT !.pc = "returned", !.indicators = cache,
                          !.cacheAfter = cache]

\* _fetch_all_indicators up to its first suspension, run by task `task`
\* (tasks[t] with its call recorded): with an unpopulated cache it takes the
\* session and issues GET /indicators, else it returns the cache at once.
FetchStart(t, task) ==
    IF indicators_cache = None
    THEN /\ ensure_session
         /\ catalogGets' = catalogGets + 1
         /\ tasks' = [tasks EXCEPT ![t] = [task EXCEPT !.pc = "fetching",
                                                       !.fetched = TRUE]]
         /\ UNCHANGED <<indicators_cache, fetchFailed>>
    ELSE /\ tasks' = [tasks EXCEPT ![t] =
                [task EXCEPT !.pc = "returned",
                             !.indicators = indicators_cache,
                             !.cacheAfter = indicators_cache,
                             !.result = IF task.name = SEARCH_INDICATORS
                                        THEN SearchReport(task.arguments.query,
                                                          indicators_cache[1])
                                        ELSE <<>>]]
         /\ UNCHANGED <<session, sessionClosed, indicators_cache,
                        catalogGets, fetchFailed>>

\* ---------------------------------------------------------------- call_tool

\* `except Exception as e:` of call_tool
CallToolExcept(exc) == exc \in ExceptionClasses

\* a handler that leaves call_tool with exception exc (an McpError with `code`)
Raised(task, exc, code) ==
    [task EXCEPT !.pc = "raised",
                 !.code = IF CallToolExcept(exc) THEN INTERNAL_ERROR ELSE code]

\* a handler starts: the host's request reaches call_tool
Arrives(t) ==
    /\ servePc = "loop"
    /\ tasks[0].pc # "scheduled"
    /\ t \in Handlers
    /\ tasks[t].pc = "idle"
    /\ t = 1 \/ tasks[t - 1].pc # "idle"

Called(t, name, arguments) ==
    [tasks[t] EXCEPT !.name = name, !.arguments = arguments,
                     !.cacheBefore = indicators_cache,
                     !.afterFailure = fetchFailed]

\* call_tool(SEARCH_INDICATORS, arguments) up to its first suspension
CallSearch(t, arguments) ==
    /\ Arrives(t)
    /\ IF "query" \notin DOMAIN arguments
       THEN /\ tasks' = [tasks EXCEPT ![t] =
                   Raised(Called(t, SEARCH_INDICATORS, arguments),
                          "ValidationError", INTERNAL_ERROR)]
            /\ UNCHANGED <<session, sessionClosed, indicators_cache,
                           catalogGets, fetchFailed>>
       ELSE FetchStart(t, Called(t, SEARCH_INDICATORS, arguments))
    /\ UNCHANGED servePc

\* call_tool(GET_INDICATOR_DATA, arguments) up to its first suspension
CallData(t, arguments) ==
    /\ Arrives(t)
    /\ IF {"indicator_id", "start_date", "end_date"} \subseteq DOMAIN arguments
       THEN /\ ensure_session
            /\ tasks' = [tasks EXCEPT ![t] =
                   [Called(t, GET_INDICATOR_DATA, arguments)
                        EXCEPT !.pc = "getting"]]
       ELSE /\ tasks' = [tasks EXCEPT ![t] =
                   Raised(Called(t, GET_INDICATOR_DATA, arguments),
                          "ValidationError", INTERNAL_ERROR)]
            /\ UNCHANGED <<session, sessionClosed>>
    /\ UNCHANGED <<servePc, indicators_cache, catalogGets, fetchFailed>>

\* call_tool with any other name: the else branch raises McpError inside the
\* try block
CallUnknown(t, name, arguments) ==
    /\ Arrives(t)
    /\ name \notin {SEARCH_INDICATORS, GET_INDICATOR_DATA}
    /\ tasks' = [tasks EXCEPT ![t] =
           Raised(Called(t, name, arguments), "McpError", METHOD_NOT_FOUND)]
    /\ UNCHANGED <<servePc, session, sessionClosed, indicators_cache,
                   catalogGets, fetchFailed>>

\* The response to a GET /indicators arrives and the task runs on to the
\* end of its coroutine.
FetchResponse(t, resp) ==
    /\ servePc \in {"loop", "closing"}
    /\ tasks[t].pc = "fetching"
    /\ indicators_cache' = FetchedCache(resp)
    /\ fetchFailed' = (fetchFailed \/ FetchTry(resp).raised)
    /\ tasks' = [tasks EXCEPT ![t] = AfterFetch(t, FetchedCache(resp))]
    /\ UNCHANGED <<servePc, session, sessionClosed, catalogGets>>

\* The response to a GET /indicators/{id} arrives and the handler runs on
\* to the end of call_tool.
DataResponse(t, resp) ==
    /\ servePc \in {"loop", "closing"}
    /\ tasks[t].pc = "getting"
    /\ LET r == GetIndicatorDataResult(tasks[t].arguments, resp)
           task == [tasks[t] EXCEPT !.response = Some(resp),
                                    !.cacheAfter = indicators_cache]
       IN  tasks' = [tasks EXCEPT ![t] =
               IF r.raised THEN Raised(task, r.exc, INTERNAL_ERROR)
               ELSE [task EXCEPT !.pc = "returned", !.result = r.text]]
    /\ UNCHANGED <<servePc, session, sessionClosed, indicators_cache,
                   catalogGets, fetchFailed>>

\* -------------------------------------------------------------------- serve

\* serve up to the end of its first try block: the session is pre-warmed and
\* the warm-up task created (it runs once serve suspends)
ServePrewarm ==
    /\ servePc = "init"
    /\ ensure_session
    /\ tasks' = [tasks EXCEPT ![0] = [@ EXCEPT !.name = "warmup",
                                               !.pc = "scheduled"]]
    /\ servePc' = "created"
    /\ UNCHANGED <<indicators_cache, catalogGets, fetchFailed>>

\* serve enters stdio_server and suspends in server.run
ServeRun ==
    /\ servePc = "created"
    /\ servePc' = "loop"
    /\ UNCHANGED <<session, sessionClosed, indicators_cache, tasks,
                   catalogGets, fetchFailed>>

\* stdio_server (or create_initialization_options) raises before serve has
\* suspended once: the finally block closes a session no task has used.
\* ClientSession.close() has no connection to wait for then, so serve does
\* not suspend before it returns and the warm-up task never gets to run.
ServeStartupError ==
    /\ servePc = "created"
    /\ close
    /\ servePc' = "closing"
    /\ UNCHANGED <<indicators_cache, tasks, catalogGets, fetchFailed>>

\* the warm-up task's first step: create_task queued it before serve
\* suspended, so the loop runs it before any handler and before server.run
\* can end
WarmupStart ==
    /\ servePc = "loop"
    /\ tasks[0].pc = "scheduled"
    /\ FetchStart(0, tasks[0])
    /\ UNCHANGED servePc

\* server.run ends (the host closed the stream): its task group has waited
\* for the handlers; the finally block calls close()
LoopExitNormal ==
    /\ servePc = "loop"
    /\ tasks[0].pc # "scheduled"
    /\ \A t \in Handlers : ~InFlight(t)
    /\ close
    /\ servePc' = "closing"
    /\ UNCHANGED <<indicators_cache, tasks, catalogGets, fetchFailed>>

\* server.run raises: its task group cancels the handlers in flight; the
\* finally block calls close()
LoopExitError ==
    /\ servePc = "loop"
    /\ tasks[0].pc # "scheduled"
    /\ tasks' = [t \in Tasks |->
                    IF t \in Handlers /\ InFlight(t)
                    THEN [tasks[t] EXCEPT !.pc = "cancelled"] ELSE tasks[t]]
    /\ close
    /\ servePc' = "closing"
    /\ UNCHANGED <<indicators_cache, catalogGets, fetchFailed>>

\* close() is done and serve returns; asyncio.run cancels what is left
ServeReturn ==
    /\ servePc = "closing"
    /\ servePc' = "returned"
    /\ tasks' = [t \in Tasks |->
                    IF InFlight(t) \/ tasks[t].pc = "scheduled"
                    THEN [tasks[t] EXCEPT !.pc = "cancelled"] ELSE tasks[t]]
    /\ UNCHANGED <<session, sessionClosed, indicators_cache, catalogGets,
                   fetchFailed>>

\* ------------------------------------------------------------------ inputs

Resp(status) == [status |-> status, body |-> [json |-> FALSE]]
NotJsonResp == [status |-> "ok", body |-> [json |-> FALSE]]
JsonResp(data) == [status |-> "ok", body |-> [json |-> TRUE, data |-> data]]

\* Indicators of the upstream catalog: I2 has no description, I3 an empty
\* short name, I4 an empty description.
I1 == [id |-> 1, name |-> <<"P", "d">>, short_name |-> <<"x">>,
       description |-> <<"d", "p">>]
I2 == [id |-> 2, name |-> <<"x">>, short_name |-> <<"D">>]
I3 == [id |-> 3, name |-> <<"x", "x">>, short_name |-> <<>>,
       description |-> <<"p", "P">>]
I4 == [id |-> 4, name |-> <<"d", "x">>, short_name |-> <<"x">>,
       description |-> <<>>]
IndicatorPool == {I1, I2, I3, I4}

\* catalogs: lists of indicators with distinct ids
SearchCatalogs ==
    {c \in SeqsUpTo(IndicatorPool, MaxCatalog) :
        \A i, j \in 1..Len(c) : i # j => c[i].id # c[j].id}
SearchQueries == SeqsUpTo(PatternTokens, MaxPattern)

\* what the upstream answers to GET /indicators
CatalogResponses ==
    {JsonResp([indicators |-> <<I1, I2>>]), JsonResp([indicators |-> <<I3>>]),
     JsonResp([message |-> "error"]), Resp("network")}

\* the argument bags the host sends
Queries == {<<"p">>, <<"(">>}
SearchArguments == {[query |-> q] : q \in Queries}
DataArguments ==
    {[indicator_id |-> 1, start_date |-> 1, end_date |-> 2,
      time_trunc |-> p[1], time_agg |-> p[2]] :
        p \in {<<"hour", "sum">>, <<"day", "avg">>}}
BadArguments == {[indicator_id |-> 1]}
UnknownTools == {"list_indicators"}

\* the points of a series, by the shape of the upstream's answer
Point(i, shape) ==
    CASE shape = "numeric"    -> [datetime |-> i, value |-> Num(i % 7)]
      [] shape = "mixed"      -> IF i % 2 = 0
                                 THEN [datetime |-> i, value |-> Null,
                                       geo_name |-> "ES"]
                                 ELSE [datetime |-> i, value |-> Num(i % 5),
                                       geo_name |-> ""]
      [] shape = "allnull"    -> [datetime |-> i, value |-> Null]
      [] shape = "nodatetime" -> [value |-> Num(3)]
      [] shape = "novalue"    -> [datetime |-> i]
      [] shape = "badvalue"   -> [datetime |-> i, value |-> NotANumber]
Shapes == {"numeric", "mixed", "allnull", "nodatetime", "novalue", "badvalue"}

SeriesResp(n, shape) ==
    JsonResp([indicator |->
        [name |-> "PVPC", values |-> [i \in 1..n |-> Point(i, shape)]]])

\* the lengths of the series: around 0 and around the sample limit
SeriesLengths ==
    (0..5) \cup ((MAX_SAMPLE_VALUES - 1)..(MAX_SAMPLE_VALUES + MaxExtra))

\* what the upstream answers to GET /indicators/{id}
DataResponses ==
    {Resp("network"), Resp("timeout"), Resp("http_error"), NotJsonResp,
     JsonResp([message |-> "error"]),
     JsonResp([indicator |-> [name |-> "PVPC"]]),
     JsonResp([indicator |-> [values |-> <<>>]])}
    \cup {SeriesResp(n, shape) : n \in SeriesLengths, shape \in Shapes}
ShortDataResponses == {Resp("network"), SeriesResp(2, "mixed")}

\* ---------------------------------------------------------- specifications

Init ==
    /\ servePc = "init"
    /\ session = 0
    /\ sessionClosed = <<>>
    /\ indicators_cache = None
    /\ tasks = [t \in Tasks |-> IdleTask]
    /\ catalogGets = 0
    /\ fetchFailed = FALSE

Next ==
    \/ ServePrewarm
    \/ ServeRun
    \/ ServeStartupError
    \/ WarmupStart
    \/ \E t \in Handlers : \E a \in SearchArguments \cup BadArguments :
           CallSearch(t, a)
    \/ \E t \in Handlers : \E a \in {CHOOSE d \in DataArguments : TRUE}
                                      \cup BadArguments :
           CallData(t, a)
    \/ \E t \in Handlers : \E n \in UnknownTools : CallUnknown(t, n, [none |-> 0])
    \/ \E t \in Tasks : \E r \in CatalogResponses : FetchResponse(t, r)
    \/ \E t \in Handlers : \E r \in ShortDataResponses : DataResponse(t, r)
    \/ LoopExitNormal
    \/ LoopExitError
    \/ ServeReturn

\* The whole server: serve, the warm-up task and the handlers.
Spec == Init /\ [][Next]_vars

\* The state once the warm-up task has stored the catalog `catalog`.
Warmed(catalog) ==
    /\ servePc = "loop"
    /\ session = 1
    /\ sessionClosed = <<FALSE>>
    /\ indicators_cache = Some(catalog)
    /\ tasks = [t \in Tasks |->
                   IF t = 0
                   THEN [IdleTask EXCEPT !.name = "warmup", !.pc = "returned",
                                         !.fetched = TRUE,
                                         !.indicators = Some(catalog),
                                         !.cacheAfter = Some(catalog)]
                   ELSE IdleTask]
    /\ catalogGets = 1
    /\ fetchFailed = FALSE

InitSearch == \E c \in SearchCatalogs : Warmed(c)

NextSearch == \E q \in SearchQueries : CallSearch(1, [query |-> q])

\* search_indicators over a populated cache, for every catalog and query.
SpecSearch == InitSearch /\ [][NextSearch]_vars

InitData == Warmed(<<I1, I2>>)

NextData ==
    \/ \E a \in DataArguments \cup BadArguments : CallData(1, a)
    \/ \E r \in DataResponses : DataResponse(1, r)

\* get_indicator_data through call_tool, for every upstream answer.
SpecData == InitData /\ [][NextData]_vars

\* ------------------------------------------------------------------ claims

Finished(t) == tasks[t].pc \in {"returned", "raised"}
IsSearch(t) ==
    tasks[t].name = SEARCH_INDICATORS /\ "query" \in DOMAIN tasks[t].arguments
IsData(t) ==
    /\ tasks[t].name = GET_INDICATOR_DATA
    /\ {"indicator_id", "start_date", "end_date"} \subseteq DOMAIN tasks[t].arguments
CountLines(lines, word) == Cardinality({i \in 1..Len(lines) : lines[i][1] = word})

\* C1: however many invocations of _fetch_all_indicators start while the
\* cache is unpopulated (the warm-up task, search_indicators calls), one GET
\* /indicators request is issued in total.
C1_SingleFlight ==
    (\E t \in Tasks : tasks[t].fetched) => catalogGets = 1

\* C2: call_tool with a name other than the two tools raises a protocol
\* error whose code is METHOD_NOT_FOUND, and starts neither operation.
C2_UnknownToolMethodNotFound ==
    \A t \in Handlers :
        (tasks[t].pc # "idle"
         /\ tasks[t].name \notin {SEARCH_INDICATORS, GET_INDICATOR_DATA})
        => /\ tasks[t].pc = "raised"
           /\ tasks[t].code = METHOD_NOT_FOUND
           /\ ~tasks[t].fetched

\* C3: search_indicators with a query that is no valid regex issues no
\* catalog fetch, returns "Invalid regex pattern: '<query>'" without raising
\* and leaves indicators_cache as it found it.
C3_InvalidRegexLeavesCache ==
    \A t \in Handlers :
        (IsSearch(t) /\ ReError(tasks[t].arguments.query))
        => /\ ~tasks[t].fetched
           /\ Finished(t) =>
                /\ tasks[t].pc = "returned"
                /\ tasks[t].result = InvalidRegexText(tasks[t].arguments.query)
                /\ tasks[t].cacheAfter = tasks[t].cacheBefore

\* C4: once a catalog fetch has failed the cache is the empty list and
\* stays so, and every search_indicators call with a valid regex that starts
\* afterwards returns the no-results text, without raising and without
\* another catalog fetch.
C4_FailedFetchPolicy ==
    fetchFailed =>
        /\ indicators_cache = Some(<<>>)
        /\ \A t \in Handlers :
             (IsSearch(t) /\ tasks[t].afterFailure
              /\ ~ReError(tasks[t].arguments.query))
             => /\ ~tasks[t].fetched
                /\ tasks[t].pc = "returned"
                /\ tasks[t].result = NoIndicatorsText

\* C5: once indicators_cache holds a list, no step of any task assigns it
\* another value.
C5_PopulateOnce ==
    [][indicators_cache # None => indicators_cache' = indicators_cache]_vars

\* the claim's "matches case-insensitively", over the three fields
FieldMatches(query, ind) ==
    \E text \in {ind.name, ind.short_name, GetDescription(ind)} :
        PatternSearch([tokens |-> query, ignorecase |-> TRUE], text)

\* C6: for a valid regex the report of search_indicators has an "ID: <id>"
\* entry exactly once for every indicator of the catalog with a matching
\* name, short name or description (case-insensitively, an absent
\* description being empty), none for any other indicator, and a header
\* count equal to the number of matching indicators; with no match it is
\* exactly the no-results text.
C6_SearchSelection ==
    \A t \in Handlers :
        (IsSearch(t) /\ tasks[t].pc = "returned"
         /\ ~ReError(tasks[t].arguments.query))
        => LET query == tasks[t].arguments.query
               catalog == tasks[t].indicators[1]
               lines == tasks[t].result
               hits == {i \in 1..Len(catalog) : FieldMatches(query, catalog[i])}
               entries(id) == {k \in 1..Len(lines) :
                                  lines[k][1] = "ID:" /\ lines[k][2] = id}
           IN  IF hits = {} THEN lines = NoIndicatorsText
               ELSE /\ lines[1] = <<"Found", Cardinality(hits),
                                    "matching indicators:">>
                    /\ CountLines(lines, "ID:") = Cardinality(hits)
                    /\ \A i \in 1..Len(catalog) :
                         Cardinality(entries(catalog[i].id))
                             = IF i \in hits THEN 1 ELSE 0

\* a search found one of two indicators, by its description alone
C6_Witness ==
    /\ IsSearch(1) /\ tasks[1].pc = "returned"
    /\ tasks[1].arguments.query = <<"p", "p">>
    /\ tasks[1].indicators = Some(<<I2, I3>>)
    /\ tasks[1].result[1] = <<"Found", 1, "matching indicators:">>

\* the upstream's answer is a failure: no response, a non-success status, a
\* body that is no JSON, or one without the keys or the numbers of a series
UpstreamFailure(resp) ==
    \/ resp.status # "ok"
    \/ ~resp.body.json
    \/ "indicator" \notin DOMAIN resp.body.data
    \/ ~({"name", "values"} \subseteq DOMAIN resp.body.data.indicator)
    \/ \E i \in 1..Len(resp.body.data.indicator.values) :
          LET point == resp.body.data.indicator.values[i]
          IN  "value" \notin DOMAIN point \/ point.value.t = "str"

\* C7: a get_indicator_data call with schema-valid arguments never leaves
\* call_tool with a protocol error over the upstream's answer: call_tool
\* returns, and after an upstream failure the text is one line that starts
\* "Failed to get indicator data:".
C7_DataFailuresInBand ==
    \A t \in Handlers :
        (IsData(t) /\ tasks[t].response # None)
        => /\ tasks[t].pc = "returned"
           /\ tasks[t].code = ""
           /\ UpstreamFailure(tasks[t].response[1])
                => /\ Len(tasks[t].result) = 1
                   /\ tasks[t].result[1][1] = "Failed to get indicator data:"

\* a call answered by a body that is no JSON ended with the in-band text
C7_Witness ==
    /\ IsData(1) /\ tasks[1].pc = "returned"
    /\ tasks[1].response = Some(NotJsonResp)
    /\ tasks[1].result[1][1] = "Failed to get indicator data:"

\* C8: a successful series of `total` points is rendered as min(total,
\* MAX_SAMPLE_VALUES) data lines in response order after the "Data:" line,
\* followed by one line "... and K more data points" with K = total -
\* MAX_SAMPLE_VALUES exactly when total > MAX_SAMPLE_VALUES; the "Data
\* points:" header reports total.
C8_SampleTruncation ==
    \A t \in Handlers :
        (IsData(t) /\ tasks[t].pc = "returned" /\ tasks[t].response # None
         /\ ~UpstreamFailure(tasks[t].response[1]))
        => LET values == tasks[t].response[1].body.data.indicator.values
               total == Len(values)
               shown == Min(total, MAX_SAMPLE_VALUES)
               lines == tasks[t].result
               d == CHOOSE i \in 1..Len(lines) : lines[i][1] = "Data:"
           IN  /\ lines[2] = <<"Data points:", total>>
               /\ CountLines(lines, "Data:") = 1
               /\ CountLines(lines, "point") = shown
               /\ \A i \in 1..shown : lines[d + i] = PointLine(values[i])
               /\ IF total > MAX_SAMPLE_VALUES
                  THEN /\ Len(lines) = d + shown + 2
                       /\ lines[d + shown + 1] = <<"">>
                       /\ lines[d + shown + 2] =
                            <<"... and", total - MAX_SAMPLE_VALUES,
                              "more data points">>
                  ELSE /\ Len(lines) = d + shown
                       /\ CountLines(lines, "... and") = 0

\* a series two points longer than the sample limit was rendered
C8_Witness ==
    /\ IsData(1) /\ tasks[1].pc = "returned"
    /\ tasks[1].response = Some(SeriesResp(MAX_SAMPLE_VALUES + 2, "mixed"))
    /\ tasks[1].result[Len(tasks[1].result)] = <<"... and", 2, "more data points">>

\* C9: the service never owns more than one open session: every session
\* but the last one created is closed, and as long as none has been closed
\* the session the pre-warm created is the only one, whatever tasks have
\* gone through _ensure_session.
C9_SessionUniqueness ==
    /\ Cardinality({i \in 1..Len(sessionClosed) : ~sessionClosed[i]}) <= 1
    /\ \A i \in 1..(Len(sessionClosed) - 1) : sessionClosed[i]
    /\ servePc \in {"created", "loop"} =>
          /\ Len(sessionClosed) = 1
          /\ session = 1

\* the warm-up task, a search and a series retrieval are all in flight
C9_Witness ==
    /\ tasks[0].pc = "fetching"
    /\ \E t, u \in Handlers : tasks[t].pc = "fetching" /\ tasks[u].pc = "getting"
    /\ sessionClosed = <<FALSE>>

====
